---- MODULE Spec2Model ----
(***************************************************************************)
(* Model of src/index.js: the dependency scanner that walks a root folder, *)
(* folds every project's package.json into two name -> version maps and    *)
(* writes list.json.                                                       *)
(*                                                                         *)
(* A JavaScript string is a sequence of one-character strings, so that     *)
(* String.replace, String.split and Number() are computed, not assumed.    *)
(* A path is the sequence of directory names below the configured root.    *)
(***************************************************************************)
EXTENDS Integers, Sequences, FiniteSets, TLC

VARIABLES
    pc,              \* position of scanProjects (the orchestrator's state)
    fs,              \* the file system below VEGA_PATH: path -> kind of node
    outFile,         \* the content of list.json next to the program
    projects,        \* const projects = findProjects(VEGA_PATH)
    idx,             \* position of the for..of loop over projects
    dependencies,    \* const dependencies = new Map()
    devDependencies, \* const devDependencies = new Map()
    result,          \* const result = generateResult(...)
    exitCode,        \* the status the process ended with: {} while it runs
    warnings,        \* console.warn lines, in order
    errors,          \* console.error lines, in order
    reads,           \* history: what each processProject call read
    calls,           \* history: how often each component was invoked
    fsChanged,       \* history: the tree changed after the discovery pass
    input,           \* the arguments of the function under check (unit specs)
    output           \* its return value

vars == <<pc, fs, outFile, projects, idx, dependencies, devDependencies, result,
          exitCode, warnings, errors, reads, calls, fsChanged, input, output>>

scanVars == <<pc, fs, outFile, projects, idx, dependencies, devDependencies,
              result, exitCode, warnings, errors, reads, calls, fsChanged>>

unitVars == <<input, output>>

(***************************************************************************)
(* Bounds                                                                  *)
(***************************************************************************)
\* longest version string the comparator is applied to
MaxLen == 3
\* most (name, version) entries merged in the merger's order check
MaxEntries == 3
\* most paths whose readdirSync/statSync fails during one walk
MaxFaults == 1

(***************************************************************************)
(* Strings                                                                 *)
(***************************************************************************)
Digits == <<"0", "1", "2", "3", "4", "5", "6", "7", "8", "9">>

DigitChars == {Digits[i] : i \in 1..10}

DigitValue(c) == (CHOOSE i \in 1..10 : Digits[i] = c) - 1

\* the character class of the regular expression in cleanVersion
OperatorChars == {"^", "~", ">", "=", "<"}

\* version.replace(/^[\^~>=<]/, ""): the pattern is anchored and not global,
\* so at most the first character is removed
cleanVersion(version) ==
    IF Len(version) > 0 /\ Head(version) \in OperatorChars
    THEN Tail(version)
    ELSE version

RECURSIVE split(_)
\* String.prototype.split("."): "" gives [""], "1." gives ["1", ""]
split(s) ==
    IF \E i \in 1..Len(s) : s[i] = "."
    THEN LET i == CHOOSE k \in 1..Len(s) :
                      s[k] = "." /\ \A j \in 1..(k - 1) : s[j] # "."
         IN  <<SubSeq(s, 1, i - 1)>> \o split(SubSeq(s, i + 1, Len(s)))
    ELSE <<s>>

RECURSIVE DecimalValue(_)
DecimalValue(s) ==
    IF s = <<>> THEN 0
    ELSE 10 * DecimalValue(SubSeq(s, 1, Len(s) - 1)) + DigitValue(s[Len(s)])

\* Number(part) for parts over digits, operator characters and letters: the
\* empty string is 0, a run of digits is its decimal value, anything else NaN
Number(part) ==
    IF \A i \in 1..Len(part) : part[i] \in DigitChars
    THEN [nan |-> FALSE, val |-> DecimalValue(part)]
    ELSE [nan |-> TRUE, val |-> 0]

\* parts[i] || 0: undefined (past the end), NaN and 0 are falsy
PartOrZero(parts, i) ==
    IF i > Len(parts) THEN 0
    ELSE IF parts[i].nan THEN 0
    ELSE parts[i].val

Parts(version) ==
    LET raw == split(version) IN [i \in 1..Len(raw) |-> Number(raw[i])]

Max(a, b) == IF a >= b THEN a ELSE b

Range(seq) == {seq[i] : i \in 1..Len(seq)}

Last(seq) == seq[Len(seq)]

RECURSIVE CompareFrom(_, _, _, _)
\* the for loop of isVersionHigher, from index i (1-based here)
CompareFrom(v1Parts, v2Parts, i, maxLength) ==
    IF i > maxLength THEN FALSE
    ELSE LET v1Part == PartOrZero(v1Parts, i)
             v2Part == PartOrZero(v2Parts, i)
         IN  IF v1Part > v2Part THEN TRUE
             ELSE IF v1Part < v2Part THEN FALSE
             ELSE CompareFrom(v1Parts, v2Parts, i + 1, maxLength)

\* a comparator that stops at the end of the shorter version
isVersionHigher_NoPadding(version1, version2) ==
    LET v1Parts == Parts(version1)
        v2Parts == Parts(version2)
        minLength == IF Len(v1Parts) <= Len(v2Parts)
                     THEN Len(v1Parts) ELSE Len(v2Parts)
    IN  CompareFrom(v1Parts, v2Parts, 1, minLength)

isVersionHigher(version1, version2) ==
    LET v1Parts == Parts(version1)
        v2Parts == Parts(version2)
        maxLength == Max(Len(v1Parts), Len(v2Parts))
    IN  CompareFrom(v1Parts, v2Parts, 1, maxLength)

(***************************************************************************)
(* Dependency Merger                                                       *)
(***************************************************************************)
\* targetMap.set(name, value) on a Map held as a function
MapSet(targetMap, name, value) ==
    [n \in (DOMAIN targetMap) \cup {name} |->
        IF n = name THEN value ELSE targetMap[n]]

EmptyMap == [n \in {} |-> <<>>]

RECURSIVE processDependencyGroup(_, _)

\* a merger that overwrites whatever is stored
processDependencyGroup_LastWins(deps, targetMap) ==
    IF deps = <<>> THEN targetMap
    ELSE processDependencyGroup(
             Tail(deps),
             MapSet(targetMap, Head(deps).name, cleanVersion(Head(deps).version)))

\* a merger that also replaces the stored version by one that is not lower
processDependencyGroup_TieOverwrites(deps, targetMap) ==
    IF deps = <<>> THEN targetMap
    ELSE LET name == Head(deps).name
             cleanVersionStr == cleanVersion(Head(deps).version)
         IN  processDependencyGroup(
                 Tail(deps),
                 IF name \in DOMAIN targetMap
                    /\ isVersionHigher(targetMap[name], cleanVersionStr)
                 THEN targetMap
                 ELSE MapSet(targetMap, name, cleanVersionStr))

\* deps is Object.entries(deps): a sequence of [name, version] with distinct
\* names; the value is the target map after the loop
processDependencyGroup(deps, targetMap) ==
    IF deps = <<>> THEN targetMap
    ELSE LET name == Head(deps).name
             cleanVersionStr == cleanVersion(Head(deps).version)
             next ==
                 IF name \in DOMAIN targetMap
                 THEN LET existingVersion == targetMap[name]
                      IN  IF isVersionHigher(cleanVersionStr, existingVersion)
                          THEN MapSet(targetMap, name, cleanVersionStr)
                          ELSE targetMap
                 ELSE MapSet(targetMap, name, cleanVersionStr)
         IN  processDependencyGroup(Tail(deps), next)

(***************************************************************************)
(* Project Finder                                                          *)
(***************************************************************************)
\* the directory names a listing can hold, in the order readdirSync gives
ItemNames == <<"a", "b">>

\* the paths of the modelled trees; <<>> is the directory the walk is rooted at
Paths == {<<>>, <<"a">>, <<"b">>, <<"a", "a">>, <<"a", "b">>}

\* "none": no such entry, "file": not a directory, "dir": a directory without
\* package.json, "proj": a directory that holds package.json
Kinds == {"none", "file", "dir", "proj"}

IsDirectory(tree, p) == tree[p] \in {"dir", "proj"}

Parent(p) == SubSeq(p, 1, Len(p) - 1)

IsPrefix(p, q) == Len(p) <= Len(q) /\ SubSeq(q, 1, Len(p)) = p

IsProperPrefix(p, q) == Len(p) < Len(q) /\ IsPrefix(p, q)

\* path.join(dir, item)
Join(dir, item) == Append(dir, item)

RECURSIVE SelectItems(_, _, _)
SelectItems(dir, tree, names) ==
    IF names = <<>> THEN <<>>
    ELSE LET fullPath == Join(dir, Head(names))
         IN  (IF fullPath \in DOMAIN tree /\ tree[fullPath] # "none"
              THEN <<Head(names)>> ELSE <<>>)
             \o SelectItems(dir, tree, Tail(names))

\* fs.readdirSync(dir) of a directory that can be read
Listing(dir, tree) == SelectItems(dir, tree, ItemNames)

NoFaults == [readdir |-> {}, stat |-> {}]

\* the paths whose readdirSync, and the paths whose statSync, throws in one walk
FaultSets ==
    {f \in [readdir : SUBSET Paths, stat : SUBSET (Paths \ {<<>>})] :
        Cardinality(f.readdir) + Cardinality(f.stat) <= MaxFaults}

NothingFound == [projects |-> <<>>, warned |-> <<>>, visited |-> {}]

Joined(a, b) ==
    [projects |-> a.projects \o b.projects,
     warned   |-> a.warned \o b.warned,
     visited  |-> a.visited \cup b.visited]

\* what two parts of a walk found, one after the other (each part is
\* evaluated once, then joined)
Both(r1, r2) == CHOOSE r \in {Joined(a, b) : a \in {r1}, b \in {r2}} : TRUE

RECURSIVE findProjects(_, _, _)
RECURSIVE ScanItems(_, _, _, _)

\* a walk that records a project and goes on into it all the same
ScanItems_DescendsIntoProjects(dir, items, tree, faults) ==
    IF items = <<>> THEN NothingFound
    ELSE LET fullPath == Join(dir, Head(items))
         IN  IF fullPath \in faults.stat
             THEN [NothingFound EXCEPT !.warned = <<dir>>]
             ELSE LET here ==
                          IF IsDirectory(tree, fullPath)
                          THEN Both([NothingFound EXCEPT !.projects =
                                         IF tree[fullPath] = "proj"
                                         THEN <<fullPath>> ELSE <<>>],
                                    findProjects(fullPath, tree, faults))
                          ELSE NothingFound
                  IN  Both(here, ScanItems(dir, Tail(items), tree, faults))

\* a walk that warns about an item it cannot stat and goes on to the next
ScanItems_StatFailureSkipsItem(dir, items, tree, faults) ==
    IF items = <<>> THEN NothingFound
    ELSE LET fullPath == Join(dir, Head(items))
             here ==
                 IF fullPath \in faults.stat
                 THEN [NothingFound EXCEPT !.warned = <<dir>>]
                 ELSE IF IsDirectory(tree, fullPath)
                 THEN IF tree[fullPath] = "proj"
                      THEN [NothingFound EXCEPT !.projects = <<fullPath>>]
                      ELSE findProjects(fullPath, tree, faults)
                 ELSE NothingFound
         IN  Both(here, ScanItems(dir, Tail(items), tree, faults))

\* the for..of loop of findProjects over the items not yet seen. A statSync
\* that throws leaves the loop for the catch block, which warns; the projects
\* pushed so far stay in the array that is returned
ScanItems(dir, items, tree, faults) ==
    IF items = <<>> THEN NothingFound
    ELSE LET fullPath == Join(dir, Head(items))
         IN  IF fullPath \in faults.stat
             THEN [NothingFound EXCEPT !.warned = <<dir>>]
             ELSE LET here ==
                          IF IsDirectory(tree, fullPath)
                          THEN IF tree[fullPath] = "proj"
                               THEN [NothingFound EXCEPT !.projects = <<fullPath>>]
                               ELSE findProjects(fullPath, tree, faults)
                          ELSE NothingFound
                  IN  Both(here, ScanItems(dir, Tail(items), tree, faults))

\* projects: the returned array; warned: the directories named in the
\* console.warn lines, in order; visited: the directories readdirSync was
\* called on
findProjects(dir, tree, faults) ==
    IF dir \in faults.readdir \/ dir \notin DOMAIN tree \/ ~IsDirectory(tree, dir)
    THEN [projects |-> <<>>, warned |-> <<dir>>, visited |-> {dir}]
    ELSE Both([NothingFound EXCEPT !.visited = {dir}],
              ScanItems(dir, Listing(dir, tree), tree, faults))

\* the trees over Paths: an entry exists only inside a directory
Trees ==
    {t \in [Paths -> Kinds] :
        \A p \in Paths \ {<<>>} :
            t[p] # "none" => IsDirectory(t, Parent(p))}

(***************************************************************************)
(* Project Processor                                                       *)
(***************************************************************************)
Entry(name, version) == [name |-> name, version |-> version]

\* what fs.readFileSync and JSON.parse give for one package.json. kind is
\* "unreadable" (readFileSync throws), "malformed" (JSON.parse throws) or
\* "ok"; a section that is absent is falsy and is skipped
PackageJson(hasDeps, deps, hasDevDeps, devDeps) ==
    [kind |-> "ok",
     hasDependencies |-> hasDeps, dependencies |-> deps,
     hasDevDependencies |-> hasDevDeps, devDependencies |-> devDeps]

Broken(kind) ==
    [kind |-> kind,
     hasDependencies |-> FALSE, dependencies |-> <<>>,
     hasDevDependencies |-> FALSE, devDependencies |-> <<>>]

ManifestWarning(packageJsonPath, cause) ==
    [what |-> "Could not process", path |-> packageJsonPath, cause |-> cause]

DirectoryWarning(dir) ==
    [what |-> "Could not read directory", path |-> dir, cause |-> "error"]

DirectoryWarnings(warned) == [i \in 1..Len(warned) |-> DirectoryWarning(warned[i])]

\* a processor whose failure empties the maps
processProject_FailureResets(projectPath, manifest, deps, devDeps) ==
    IF manifest.kind = "ok"
    THEN [dependencies |->
              IF manifest.hasDependencies
              THEN processDependencyGroup(manifest.dependencies, deps)
              ELSE deps,
          devDependencies |->
              IF manifest.hasDevDependencies
              THEN processDependencyGroup(manifest.devDependencies, devDeps)
              ELSE devDeps,
          warned |-> <<>>]
    ELSE [dependencies |-> EmptyMap,
          devDependencies |-> EmptyMap,
          warned |-> <<ManifestWarning(Join(projectPath, "package.json"),
                                       manifest.kind)>>]

\* the maps after the call and the console.warn lines of the call
processProject(projectPath, manifest, deps, devDeps) ==
    LET packageJsonPath == Join(projectPath, "package.json")
    IN  IF manifest.kind = "ok"
        THEN [dependencies |->
                  IF manifest.hasDependencies
                  THEN processDependencyGroup(manifest.dependencies, deps)
                  ELSE deps,
              devDependencies |->
                  IF manifest.hasDevDependencies
                  THEN processDependencyGroup(manifest.devDependencies, devDeps)
                  ELSE devDeps,
              warned |-> <<>>]
        ELSE [dependencies |-> deps,
              devDependencies |-> devDeps,
              warned |-> <<ManifestWarning(packageJsonPath, manifest.kind)>>]

(***************************************************************************)
(* Result Builder and Report Writer                                        *)
(***************************************************************************)
\* `^${version}`
Caret(version) == <<"^">> \o version

Prefixed(map) == [n \in DOMAIN map |-> Caret(map[n])]

\* totalProjects comes from a walk of its own over the tree as it is now
generateResult(deps, devDeps, vegaPath, tree, faults) ==
    [scanDate |-> "now",
     vegaPath |-> vegaPath,
     totalProjects |-> Len(findProjects(vegaPath, tree, faults).projects),
     dependencies |-> Prefixed(deps),
     devDependencies |-> Prefixed(devDeps),
     summary |-> [totalDependencies |-> Cardinality(DOMAIN deps),
                  totalDevDependencies |-> Cardinality(DOMAIN devDeps)]]

NoResult == [scanDate |-> "none"]

Absent == [state |-> "absent"]

PriorReport == [state |-> "prior"]

Partial == [state |-> "partial"]

Written(report) == [state |-> "written", content |-> report]

\* fs.writeFileSync(outputPath, jsonContent): the file holds the report, or
\* the call throws before the file is opened or while it is written
saveResult(report, file) ==
    [ok |-> {Written(report)}, thrown |-> {file, Partial}]

(***************************************************************************)
(* Orchestrator: scanProjects                                              *)
(***************************************************************************)
\* const VEGA_PATH
VEGA_PATH == <<>>

\* the package.json files a project may hold
ManifestA ==
    PackageJson(TRUE, <<Entry("lib", <<"^", "1", ".", "2", ".", "0">>)>>,
                FALSE, <<>>)

ManifestB ==
    PackageJson(TRUE, <<Entry("lib", <<"1", ".", "5", ".", "0">>)>>,
                TRUE, <<Entry("jest", <<"~", "2", ".", "0">>)>>)

ManifestC ==
    PackageJson(TRUE, <<Entry("lib", <<"^", "1", ".", "5">>),
                        Entry("util", <<">", "=", "3", ".", "1", ".", "0">>)>>,
                TRUE, <<Entry("jest", <<"2", ".", "0", ".", "0">>)>>)

ManifestEmpty == PackageJson(FALSE, <<>>, FALSE, <<>>)

Manifests ==
    {ManifestA, ManifestB, ManifestC, ManifestEmpty,
     Broken("unreadable"), Broken("malformed")}

NoCalls == [finder |-> 0, processor |-> 0, builder |-> 0, writer |-> 0]

Called(component) == [calls EXCEPT ![component] = @ + 1]

ScanStart ==
    /\ pc = "Start"
    /\ outFile \in {Absent, PriorReport}
    /\ projects = <<>>
    /\ idx = 0
    /\ dependencies = EmptyMap
    /\ devDependencies = EmptyMap
    /\ result = NoResult
    /\ exitCode = {}
    /\ warnings = <<>>
    /\ errors = <<>>
    /\ reads = <<>>
    /\ calls = NoCalls
    /\ fsChanged = FALSE

NoInput == [of |-> "scanProjects"]

NoOutput == [done |-> FALSE]

\* the trees the scan starts on: directories with or without package.json (a
\* plain file is skipped by the walk like an entry that is not there)
ScanTrees == {t \in Trees : \A p \in Paths : t[p] # "file"}

Init ==
    /\ ScanStart
    /\ fs \in ScanTrees
    /\ input = NoInput
    /\ output = NoOutput

\* console.log(`Scanning projects in: ...`)
Start ==
    /\ pc = "Start"
    /\ pc' = "ValidatingRoot"
    /\ UNCHANGED <<fs, outFile, projects, idx, dependencies, devDependencies,
                   result, exitCode, warnings, errors, reads, calls, fsChanged>>
    /\ UNCHANGED unitVars

\* the catch block of scanProjects: console.error, process.exit(1)
Fail(message) ==
    /\ pc' = "Failed"
    /\ errors' = Append(errors, message)
    /\ exitCode' = {1}

\* a scan that does not look whether the root exists
ValidateRoot_NoCheck ==
    /\ pc = "ValidatingRoot"
    /\ pc' = "Discovering"
    /\ UNCHANGED <<fs, outFile, projects, idx, dependencies, devDependencies,
                   result, exitCode, warnings, errors, reads, calls, fsChanged>>
    /\ UNCHANGED unitVars

\* if (!fs.existsSync(VEGA_PATH)) throw new Error(...)
ValidateRoot ==
    /\ pc = "ValidatingRoot"
    /\ IF fs[VEGA_PATH] = "none"
       THEN Fail("Vega folder not found")
       ELSE /\ pc' = "Discovering"
            /\ UNCHANGED <<errors, exitCode>>
    /\ UNCHANGED <<fs, outFile, projects, idx, dependencies, devDependencies,
                   result, warnings, reads, calls, fsChanged>>
    /\ UNCHANGED unitVars

\* const projects = findProjects(VEGA_PATH); the two maps are created empty
Discover ==
    /\ pc = "Discovering"
    /\ \E faults \in FaultSets :
          LET found == findProjects(VEGA_PATH, fs, faults)
          IN  /\ projects' = found.projects
              /\ warnings' = warnings \o DirectoryWarnings(found.warned)
    /\ idx' = 0
    /\ dependencies' = EmptyMap
    /\ devDependencies' = EmptyMap
    /\ calls' = Called("finder")
    /\ pc' = "Processing"
    /\ UNCHANGED <<fs, outFile, result, exitCode, errors, reads, fsChanged>>
    /\ UNCHANGED unitVars

\* one turn of for (const projectPath of projects): processProject(...)
ProcessNext ==
    /\ pc = "Processing"
    /\ idx < Len(projects)
    /\ \E manifest \in Manifests :
          LET projectPath == projects[idx + 1]
              after == processProject(projectPath, manifest,
                                      dependencies, devDependencies)
          IN  /\ dependencies' = after.dependencies
              /\ devDependencies' = after.devDependencies
              /\ warnings' = warnings \o after.warned
              /\ reads' = Append(reads, [path |-> projectPath,
                                         manifest |-> manifest])
    /\ idx' = idx + 1
    /\ calls' = Called("processor")
    /\ UNCHANGED <<pc, fs, outFile, projects, result, exitCode, errors, fsChanged>>
    /\ UNCHANGED unitVars

\* a loop that may be left before the last project
EndProcessing_Early ==
    /\ pc = "Processing"
    /\ idx + 1 >= Len(projects)
    /\ pc' = "Building"
    /\ UNCHANGED <<fs, outFile, projects, idx, dependencies, devDependencies,
                   result, exitCode, warnings, errors, reads, calls, fsChanged>>
    /\ UNCHANGED unitVars

\* the loop is over
EndProcessing ==
    /\ pc = "Processing"
    /\ idx = Len(projects)
    /\ pc' = "Building"
    /\ UNCHANGED <<fs, outFile, projects, idx, dependencies, devDependencies,
                   result, exitCode, warnings, errors, reads, calls, fsChanged>>
    /\ UNCHANGED unitVars

\* the environment: after the discovery pass a package.json appears in, or
\* disappears from, one directory
TreeChanges ==
    /\ pc = "Building"
    /\ ~fsChanged
    /\ \E p \in Paths :
          /\ IsDirectory(fs, p)
          /\ fs' = [fs EXCEPT ![p] = IF @ = "dir" THEN "proj" ELSE "dir"]
    /\ fsChanged' = TRUE
    /\ UNCHANGED <<pc, outFile, projects, idx, dependencies, devDependencies,
                   result, exitCode, warnings, errors, reads, calls>>
    /\ UNCHANGED unitVars

\* const result = generateResult(dependencies, devDependencies, VEGA_PATH)
Build ==
    /\ pc = "Building"
    /\ \E faults \in FaultSets :
          /\ result' = generateResult(dependencies, devDependencies,
                                      VEGA_PATH, fs, faults)
          /\ warnings' = warnings \o
                 DirectoryWarnings(findProjects(VEGA_PATH, fs, faults).warned)
    /\ calls' = [calls EXCEPT !.builder = @ + 1, !.finder = @ + 1]
    /\ pc' = "Writing"
    /\ UNCHANGED <<fs, outFile, projects, idx, dependencies, devDependencies,
                   exitCode, errors, reads, fsChanged>>
    /\ UNCHANGED unitVars

\* saveResult(result), then the closing console.log lines; a throw of
\* writeFileSync reaches the catch block
Write ==
    /\ pc = "Writing"
    /\ calls' = Called("writer")
    /\ \/ /\ outFile' \in saveResult(result, outFile).ok
          /\ pc' = "Done"
          /\ exitCode' = {0}
          /\ UNCHANGED errors
       \/ /\ outFile' \in saveResult(result, outFile).thrown
          /\ Fail("write failed")
    /\ UNCHANGED <<fs, projects, idx, dependencies, devDependencies, result,
                   warnings, reads, fsChanged>>
    /\ UNCHANGED unitVars

\* the steps of the program, apart from those of its environment
Run ==
    \/ Start
    \/ ValidateRoot
    \/ Discover
    \/ ProcessNext
    \/ EndProcessing
    \/ Build
    \/ Write

Next == Run \/ TreeChanges

Spec == Init /\ [][Next]_vars

(***************************************************************************)
(* The scan: properties                                                    *)
(***************************************************************************)
Sections == {"dependencies", "devDependencies"}

PackageNames == {"lib", "jest", "util"}

MapOf(section) ==
    IF section = "dependencies" THEN dependencies ELSE devDependencies

\* the entries of one section of a manifest that was read and parsed
SectionOf(manifest, section) ==
    IF manifest.kind # "ok" THEN <<>>
    ELSE IF section = "dependencies"
    THEN (IF manifest.hasDependencies THEN manifest.dependencies ELSE <<>>)
    ELSE (IF manifest.hasDevDependencies THEN manifest.devDependencies ELSE <<>>)

RECURSIVE DeclaredVersions(_, _, _)
\* the cleaned versions declared for a name in a section, in processing order
DeclaredVersions(rs, section, name) ==
    IF rs = <<>> THEN <<>>
    ELSE LET mine == SelectSeq(SectionOf(Head(rs).manifest, section),
                               LAMBDA e : e.name = name)
         IN  [i \in 1..Len(mine) |-> cleanVersion(mine[i].version)]
             \o DeclaredVersions(Tail(rs), section, name)

IsHighest(hist, k) == \A j \in 1..Len(hist) : ~isVersionHigher(hist[j], hist[k])

\* the first of the versions that no declared version is higher than
FirstHighest(hist) ==
    hist[CHOOSE k \in 1..Len(hist) :
             IsHighest(hist, k) /\ \A j \in 1..(k - 1) : ~IsHighest(hist, j)]

\* C1: after any number of manifests has been folded, a name is in a mapping
\* exactly when some parsed manifest declares it in that section; no version
\* declared for it is higher than the stored one; and the stored string is
\* the first, in processing order, of the declared versions that none is
\* higher than.
C1_StoredIsFirstHighestDeclared ==
    \A section \in Sections : \A name \in PackageNames :
        LET hist == DeclaredVersions(reads, section, name)
            map == MapOf(section)
        IN  /\ name \in DOMAIN map <=> hist # <<>>
            /\ DOMAIN map \subseteq PackageNames
            /\ hist # <<>> =>
                  /\ \A j \in 1..Len(hist) : ~isVersionHigher(hist[j], map[name])
                  /\ map[name] = FirstHighest(hist)

\* three manifests were folded: a lower version, then two that compare as
\* equal, of which the first is kept
C1_Witness ==
    /\ pc = "Building"
    /\ DeclaredVersions(reads, "dependencies", "lib") =
           <<<<"1", ".", "2", ".", "0">>, <<"1", ".", "5", ".", "0">>,
             <<"1", ".", "5">>>>
    /\ dependencies["lib"] = <<"1", ".", "5", ".", "0">>

Skipped == {i \in 1..Len(reads) : reads[i].manifest.kind # "ok"}

Terminal == {"Done", "Failed"}

\* a processProject call whose read or parse fails changes neither mapping,
\* warns of the manifest, and leaves the scan in its loop, at the next project
C3_FailedProjectIsSkipped ==
    (pc = "Processing" /\ Len(reads') = Len(reads) + 1
        /\ Last(reads').manifest.kind # "ok")
    => /\ dependencies' = dependencies
       /\ devDependencies' = devDependencies
       /\ warnings' = Append(warnings,
              ManifestWarning(Join(Last(reads').path, "package.json"),
                              Last(reads').manifest.kind))
       /\ pc' = "Processing"
       /\ idx' = idx + 1
       /\ errors' = errors
       /\ exitCode' = {}

\* a scan that skipped a project goes on: past the loop every project was
\* processed, in Done the report is on disk and the status is 0, and Failed
\* is entered only by a throw of the report's own write
C3_ScanGoesOn ==
    Skipped # {} =>
        /\ pc \in {"Processing", "Building", "Writing", "Done", "Failed"}
        /\ pc # "Processing" =>
              [i \in 1..Len(reads) |-> reads[i].path] = projects
        /\ pc = "Done" => exitCode = {0} /\ outFile = Written(result)
        /\ pc = "Failed" => calls.writer = 1 /\ errors = <<"write failed">>
        /\ pc \notin Terminal => ENABLED Run

\* C3 as worded: a scan that skipped a manifest it could not read or parse
\* never enters Failed, and ends in Done with the report written and status 0.
C3_SkippingScanEndsInDone ==
    Skipped # {} =>
        /\ pc # "Failed"
        /\ pc = "Done" => exitCode = {0} /\ outFile = Written(result)

\* C3, amended: a manifest that cannot be read or parsed gives a warning and
\* leaves both mappings as they were; the scan does not fail on it, processes
\* the remaining projects and goes on to build and write the report; it ends
\* in Done with status 0 unless the write of the report itself throws, the
\* one way such a scan enters Failed.
C3_ManifestFailureIsSkipped ==
    [][C3_FailedProjectIsSkipped]_vars /\ []C3_ScanGoesOn

\* a malformed manifest between two good ones: the run ends in Done with
\* what the good ones declare
C3_Witness ==
    /\ pc = "Done"
    /\ Len(reads) = 3
    /\ reads[1].manifest = ManifestA
    /\ reads[2].manifest = Broken("malformed")
    /\ reads[3].manifest = ManifestB
    /\ dependencies["lib"] = <<"1", ".", "5", ".", "0">>
    /\ exitCode = {0}
    /\ outFile = Written(result)

\* C4: when the root does not exist the scan goes from Validating Root to
\* Failed: no component is ever invoked, list.json is neither created nor
\* overwritten, and the process ends with status 1.
C4_MissingRootFailsAtOnce ==
    fs[VEGA_PATH] = "none" =>
        /\ pc \in {"Start", "ValidatingRoot", "Failed"}
        /\ calls = NoCalls
        /\ result = NoResult
        /\ outFile \in {Absent, PriorReport}
        /\ pc = "Failed" => exitCode = {1} /\ Len(errors) = 1
        /\ pc # "Failed" => exitCode = {} /\ ENABLED Run

\* the root is missing, the run has failed, the earlier report is still there
C4_Witness ==
    /\ fs[VEGA_PATH] = "none"
    /\ pc = "Failed"
    /\ exitCode = {1}
    /\ outFile = PriorReport

StartsWithOperator(version) ==
    Len(version) > 0 /\ Head(version) \in OperatorChars

\* C7 as worded: no version stored in a mapping begins with one of ^ ~ > = <,
\* and every version of the report is the stored one behind exactly one ^.
C7_StoredVersionsAreClean ==
    \A section \in Sections :
        /\ \A n \in DOMAIN MapOf(section) : ~StartsWithOperator(MapOf(section)[n])
        /\ pc \in {"Writing", "Done"} =>
              \A n \in DOMAIN result[section] :
                  /\ result[section][n] = Caret(MapOf(section)[n])
                  /\ ~StartsWithOperator(Tail(result[section][n]))

\* C10 as worded: in Done the report's totalProjects is the number of
\* projects discovered and processed.
C10_TotalProjectsIsDiscoveredCount ==
    pc = "Done" =>
        /\ result.totalProjects = Len(projects)
        /\ result.totalProjects = calls.processor

Stage(state) ==
    CASE state = "Start" -> 0
      [] state = "ValidatingRoot" -> 1
      [] state = "Discovering" -> 2
      [] state = "Processing" -> 3
      [] state = "Building" -> 4
      [] state = "Writing" -> 5
      [] state \in Terminal -> 6

\* how far the run has come; it cannot grow for ever
Progress == Stage(pc) * (Cardinality(Paths) + 1) + idx

PathsRead == [i \in 1..Len(reads) |-> reads[i].path]

\* the order of the states and of the calls
C9_InOrder ==
    /\ pc \in {"Start", "ValidatingRoot", "Discovering", "Processing",
               "Building", "Writing", "Done", "Failed"}
    /\ Stage(pc) < 3 => calls = NoCalls
    /\ pc \in {"Processing", "Building"} => calls.finder = 1
    /\ calls.processor = Len(reads)
    /\ \A i, j \in 1..Len(projects) : projects[i] = projects[j] => i = j
    /\ pc = "Processing" => PathsRead = SubSeq(projects, 1, idx)
    /\ Stage(pc) > 3 /\ calls.finder > 0 => PathsRead = projects
    /\ calls.builder = (IF Stage(pc) > 4 /\ calls.finder > 0 THEN 1 ELSE 0)
    /\ calls.builder = 1 <=> result # NoResult
    /\ calls.writer = (IF pc \in Terminal /\ calls.builder = 1 THEN 1 ELSE 0)
    /\ pc = "Done" => exitCode = {0}
    /\ pc = "Failed" => exitCode = {1}
    /\ pc \notin Terminal => exitCode = {} /\ ENABLED Run

\* every step moves the run to the next state or to Failed, or processes the
\* next project, or is the one change of the tree; nothing follows Done or
\* Failed; the list of projects is set by the discovery pass alone
C9_Forward ==
    /\ pc \notin Terminal
    /\ pc' # pc => Stage(pc') = Stage(pc) + 1 \/ pc' = "Failed"
    /\ Progress' > Progress \/ (Progress' = Progress /\ ~fsChanged /\ fsChanged')
    /\ projects' # projects => pc = "Discovering"
    /\ Len(reads') > Len(reads) =>
          /\ pc = "Processing"
          /\ reads' = Append(reads, Last(reads'))
          /\ Last(reads').path = projects[idx + 1]

\* C9: a run goes through Start, Validating Root, Discovering, Processing,
\* Building, Writing, Done in that order or ends in Failed; each discovered
\* project is processed once, in discovery order; the builder runs after the
\* last project, the writer after the builder; and the run ends, with status
\* 0 in Done and 1 in Failed.
C9_RunsInOrderAndEnds ==
    []C9_InOrder /\ [][C9_Forward]_vars

\* three projects were discovered and processed, the report is written
C9_Witness ==
    /\ pc = "Done"
    /\ Len(projects) = 3
    /\ PathsRead = projects
    /\ calls = [finder |-> 2, processor |-> 3, builder |-> 1, writer |-> 1]
    /\ exitCode = {0}

(***************************************************************************)
(* The functions on their own: each specification draws the arguments of   *)
(* one function and applies it, the scan standing still at its start.      *)
(***************************************************************************)
ScanIdle ==
    /\ ScanStart
    /\ outFile = Absent
    /\ fs = [p \in Paths |-> "none"]

\* the characters of the version strings compared: digits, the separator and
\* a character that is neither
VersionChars == {"0", "1", ".", "x"}

Strings(n) == UNION {[1..k -> VersionChars] : k \in 0..n}

InitComparator ==
    /\ ScanIdle
    /\ input \in [version1 : Strings(MaxLen), version2 : Strings(MaxLen)]
    /\ output = NoOutput

Compare ==
    /\ ~output.done
    /\ output' = [done |-> TRUE,
                  higher |-> isVersionHigher(input.version1, input.version2),
                  lower |-> isVersionHigher(input.version2, input.version1),
                  self |-> isVersionHigher(input.version1, input.version1)]
    /\ UNCHANGED input
    /\ UNCHANGED scanVars

SpecComparator == InitComparator /\ [][Compare]_vars

\* the entries merged: two names, and versions of which two compare as equal
MergeEntries ==
    {Entry(n, v) : n \in {"lib", "util"},
                   v \in {<<"1", ".", "5", ".", "0">>, <<"1", ".", "5">>,
                          <<"^", "1", ".", "2">>}}

\* the sequences of k entries, no entry twice
Orders(k) ==
    {s \in [1..k -> MergeEntries] : \A i, j \in 1..k : s[i] = s[j] => i = j}

DistinctNames(group) ==
    \A i, j \in 1..Len(group) : group[i].name = group[j].name => i = j

\* order1 and order2 hold the same entries, order2 in any other order
InitMerger ==
    /\ ScanIdle
    /\ \E k \in 0..MaxEntries :
          \E s \in Orders(k) :
             \E perm \in Permutations(1..k) :
                input = [order1 |-> s, order2 |-> [i \in 1..k |-> s[perm[i]]]]
    /\ output = [done |-> FALSE, map1 |-> EmptyMap, pos1 |-> 0,
                 map2 |-> EmptyMap, pos2 |-> 0]

\* one manifest's group of the first order is merged: the next n entries
MergeFirst ==
    /\ \E n \in 1..(Len(input.order1) - output.pos1) :
          LET deps == SubSeq(input.order1, output.pos1 + 1, output.pos1 + n)
          IN  /\ DistinctNames(deps)
              /\ output' = [output EXCEPT
                     !.map1 = processDependencyGroup(deps, @),
                     !.pos1 = @ + n,
                     !.done = (output.pos1 + n = Len(input.order1)
                               /\ output.pos2 = Len(input.order2))]
    /\ UNCHANGED input
    /\ UNCHANGED scanVars

\* one manifest's group of the second order is merged
MergeSecond ==
    /\ \E n \in 1..(Len(input.order2) - output.pos2) :
          LET deps == SubSeq(input.order2, output.pos2 + 1, output.pos2 + n)
          IN  /\ DistinctNames(deps)
              /\ output' = [output EXCEPT
                     !.map2 = processDependencyGroup(deps, @),
                     !.pos2 = @ + n,
                     !.done = (output.pos2 + n = Len(input.order2)
                               /\ output.pos1 = Len(input.order1))]
    /\ UNCHANGED input
    /\ UNCHANGED scanVars

NextMerger == MergeFirst \/ MergeSecond

SpecMerger == InitMerger /\ [][NextMerger]_vars

\* any directory of any tree is walked, with any faults
InitFinder ==
    /\ ScanIdle
    /\ input \in [dir : Paths, tree : Trees, faults : FaultSets]
    /\ output = NoOutput

Find ==
    /\ ~output.done
    /\ output' = [done |-> TRUE,
                  found |-> findProjects(input.dir, input.tree, input.faults)]
    /\ UNCHANGED input
    /\ UNCHANGED scanVars

SpecFinder == InitFinder /\ [][Find]_vars

(***************************************************************************)
(* Version Comparator and Dependency Merger: properties                    *)
(***************************************************************************)
\* the i-th component of a version as a number: a component that is missing
\* or not a run of digits counts as 0
ComponentValue(version, i) ==
    LET comps == split(version)
    IN  IF i <= Len(comps) /\ \A k \in 1..Len(comps[i]) : comps[i][k] \in DigitChars
        THEN DecimalValue(comps[i])
        ELSE 0

Padded(version, n) == [i \in 1..n |-> ComponentValue(version, i)]

LexGreater(p, q) ==
    \E i \in DOMAIN p : p[i] > q[i] /\ \A j \in 1..(i - 1) : p[j] = q[j]

PaddedGreater(a, b) ==
    LET n == Max(Len(split(a)), Len(split(b)))
    IN  LexGreater(Padded(a, n), Padded(b, n))

SameOrder(v, w) == ~isVersionHigher(v, w) /\ ~isVersionHigher(w, v)

\* the cleaned versions the entries of an order declare for a name
DeclaredFor(order, name) ==
    {cleanVersion(order[i].version) : i \in {k \in 1..Len(order) : order[k].name = name}}

\* the comparator orders the versions declared for the name totally
TotallyOrdered(order, name) ==
    \A v, w \in DeclaredFor(order, name) : v # w => ~SameOrder(v, w)

\* C2 as worded: the same entries merged in any order and any split into
\* groups give the same mapping, with the same stored string for every name.
C2_SameMappingInAnyOrder ==
    output.done => output.map1 = output.map2

\* C2, amended: the same entries merged in any order and any split give
\* mappings with the same names whose versions the comparator cannot tell
\* apart, and the same stored string for every name whose declared versions
\* the comparator orders totally.
C2_SameMappingUpToTies ==
    output.done =>
        /\ DOMAIN output.map1 = DOMAIN output.map2
        /\ \A n \in DOMAIN output.map1 :
              /\ SameOrder(output.map1[n], output.map2[n])
              /\ TotallyOrdered(input.order1, n) =>
                     output.map1[n] = output.map2[n]

\* three entries of one name, merged in two different orders, the highest
\* first in one and last in the other
C2_Witness ==
    /\ output.done
    /\ Len(input.order1) = 3
    /\ \A i \in 1..3 : input.order1[i].name = "lib"
    /\ input.order2 = <<input.order1[3], input.order1[2], input.order1[1]>>
    /\ cleanVersion(input.order1[1].version) = <<"1", ".", "2">>
    /\ output.map1 # output.map2

(***************************************************************************)
(* Project Finder: properties                                              *)
(***************************************************************************)
NoProjectAboveAnother(found) ==
    \A p, q \in Range(found.projects) : ~IsProperPrefix(p, q)

\* C5 as worded: for every tree and every root, no directory that holds a
\* manifest is listed, nothing below such a directory is visited or returned,
\* and no returned project is an ancestor of another.
C5_NeverListsManifestDirectory ==
    output.done =>
        LET found == output.found
        IN  /\ \A d \in found.visited : input.tree[d] # "proj"
            /\ \A q, p \in Paths :
                  input.tree[q] = "proj" /\ IsProperPrefix(q, p) =>
                      p \notin found.visited /\ p \notin Range(found.projects)
            /\ NoProjectAboveAnother(found)

\* C5, amended: no directory other than the root of the walk that holds a
\* manifest is listed (the root is listed without a look at its manifest),
\* nothing below a manifest directory that lies below the root is visited or
\* returned, and no returned project is an ancestor of another.
C5_NeverListsManifestDirectoryBelowRoot ==
    output.done =>
        LET found == output.found
        IN  /\ \A d \in found.visited \ {input.dir} : input.tree[d] # "proj"
            /\ \A q, p \in Paths :
                  /\ IsProperPrefix(input.dir, q)
                  /\ input.tree[q] = "proj"
                  /\ IsProperPrefix(q, p)
                  => p \notin found.visited /\ p \notin Range(found.projects)
            /\ NoProjectAboveAnother(found)

\* a project that holds a project: the outer one alone is returned
C5_Witness ==
    /\ output.done
    /\ input.dir = <<>>
    /\ input.tree[<<>>] = "dir"
    /\ input.tree[<<"a">>] = "proj"
    /\ input.tree[<<"a", "b">>] = "proj"
    /\ input.faults = NoFaults
    /\ output.found.projects = <<<<"a">>>>
    /\ output.found.visited = {<<>>}

ItemIndex(name) == CHOOSE i \in 1..Len(ItemNames) : ItemNames[i] = name

\* the entries of the tree that fail to stat, below the root of the walk
StatFailures(root, tree, faults) ==
    {x \in faults.stat : IsProperPrefix(root, x) /\ tree[x] # "none"}

\* the directories at or below the root whose read fails: the listing
\* throws, or the stat of one of the items does
FailedDirectories(root, tree, faults) ==
    {d \in Paths :
        /\ IsPrefix(root, d)
        /\ \/ d \in faults.readdir
           \/ ~IsDirectory(tree, d) /\ d = root
           \/ \E x \in StatFailures(root, tree, faults) : Parent(x) = d}

\* the tree with every directory whose read fails emptied
Emptied(root, tree, faults) ==
    [p \in Paths |->
        IF p # <<>> /\ Parent(p) \in FailedDirectories(root, tree, faults)
        THEN "none" ELSE tree[p]]

\* the tree without the content of the directories whose listing fails, and
\* without the items from the first one that fails to stat on
CutShort(root, tree, faults) ==
    [p \in Paths |->
        IF p # <<>> /\
           \/ Parent(p) \in faults.readdir /\ IsPrefix(root, Parent(p))
           \/ \E x \in StatFailures(root, tree, faults) :
                 /\ Parent(x) = Parent(p)
                 /\ ItemIndex(Last(x)) <= ItemIndex(Last(p))
        THEN "none" ELSE tree[p]]

\* every directory that was read and whose read failed is named in a warning,
\* and every warning names such a directory
WarnsOfFailedReads ==
    Range(output.found.warned) =
        output.found.visited
            \cap FailedDirectories(input.dir, input.tree, input.faults)

\* C8 as worded: a directory whose listing, or the stat of one of whose
\* items, fails is warned about and contributes no project at all; the walk
\* returns what the rest of the tree holds.
C8_FailedDirectoryContributesNothing ==
    output.done =>
        /\ WarnsOfFailedReads
        /\ output.found.projects =
               findProjects(input.dir,
                            Emptied(input.dir, input.tree, input.faults),
                            NoFaults).projects

\* C8, amended: a directory whose listing fails is warned about and
\* contributes no project; a directory with an item whose stat fails is
\* warned about and contributes what its items before that one hold, and
\* nothing of that item and the items after it; the walk returns what the
\* rest of the tree holds.
C8_FailedDirectoryContributesItemsBeforeFailure ==
    output.done =>
        /\ WarnsOfFailedReads
        /\ output.found.projects =
               findProjects(input.dir,
                            CutShort(input.dir, input.tree, input.faults),
                            NoFaults).projects

\* the stat of the second item fails: the project found first is returned
C8_Witness ==
    /\ output.done
    /\ input.dir = <<>>
    /\ input.tree[<<"a">>] = "proj"
    /\ input.tree[<<"b">>] = "proj"
    /\ input.faults = [readdir |-> {}, stat |-> {<<"b">>}]
    /\ output.found.projects = <<<<"a">>>>
    /\ output.found.warned = <<<<>>>>

====
